---------------------------- MODULE Spec2Model ----------------------------
(***************************************************************************)
(* A model of the bonus-potential cubing calculator of                     *)
(* src/frontend/src/App.tsx: the React component's state, its event        *)
(* handlers, and the probability engine inside handleCalculate             *)
(* (potentialToFd, computeMultiplicativeFd, calcProb, geomPercentile,      *)
(* buildResult).                                                           *)
(*                                                                         *)
(* Numbers.  A JavaScript number is modelled as a record [n, d]: the exact *)
(* rational n/d in lowest terms with d > 0, or one of the three special    *)
(* values NaN = 0/0, Infinity = 1/0 and -Infinity = -1/0.  Arithmetic is   *)
(* the exact arithmetic of the rationals extended with the IEEE rules for  *)
(* NaN and the infinities; the rounding of binary64 is not part of it, so  *)
(* a statement made with these numbers is a statement about the           *)
(* real-number value of the expressions of the source.  Where a statement  *)
(* is an equality that rounding decides (computeMultiplicativeFd), the     *)
(* arithmetic is modelled a second time in binary64, bit for bit; see      *)
(* "Binary64 arithmetic" below.                                            *)
(*                                                                         *)
(* Text.  A JavaScript string is modelled as a sequence of one-character   *)
(* strings, so that parseInt and parseFloat can be modelled by what they   *)
(* do with the characters.                                                 *)
(***************************************************************************)
EXTENDS Integers, Sequences, FiniteSets, TLC

(***************************************************************************)
(* Numbers                                                                 *)
(***************************************************************************)
Abs(x) == IF x < 0 THEN -x ELSE x

RECURSIVE GCD(_, _)
GCD(a, b) == IF b = 0 THEN a ELSE GCD(b, a % b)

NaN == [n |-> 0, d |-> 0]

Infinity == [n |-> 1, d |-> 0]

NegInfinity == [n |-> -1, d |-> 0]

Sign(x) == IF x > 0 THEN 1 ELSE IF x < 0 THEN -1 ELSE 0

\* The number n/d; d = 0 gives NaN or an infinity, as dividing by zero does.
Rat(n, d) ==
    IF d = 0 THEN [n |-> Sign(n), d |-> 0]
    ELSE IF d = 1 THEN [n |-> n, d |-> 1]
    ELSE LET g == GCD(Abs(n), Abs(d))
             s == IF d < 0 THEN -1 ELSE 1
         IN  [n |-> s * (n \div g), d |-> s * (d \div g)]

Num(k) == [n |-> k, d |-> 1]

isNaN(x) == x.n = 0 /\ x.d = 0

IsFinite(x) == x.d # 0

\* x * y
Mul(x, y) ==
    IF IsFinite(x) /\ IsFinite(y)
    THEN Rat(x.n * y.n, x.d * y.d)
    ELSE [n |-> Sign(x.n) * Sign(y.n), d |-> 0]

\* x / y
Div(x, y) ==
    IF IsFinite(x) /\ IsFinite(y)
    THEN IF y.n = 0 THEN [n |-> Sign(x.n), d |-> 0]
         ELSE Mul(x, [n |-> Sign(y.n) * y.d, d |-> Abs(y.n)])
    ELSE IF IsFinite(y) /\ ~isNaN(x)
         THEN [n |-> x.n * (IF y.n < 0 THEN -1 ELSE 1), d |-> 0]
         ELSE IF IsFinite(x) /\ ~isNaN(y) THEN Num(0) ELSE NaN

\* x + y
Add(x, y) ==
    IF IsFinite(x) /\ IsFinite(y)
    THEN IF x.d = y.d THEN Rat(x.n + y.n, x.d)
         ELSE Rat(x.n * y.d + y.n * x.d, x.d * y.d)
    ELSE IF isNaN(x) \/ isNaN(y) THEN NaN
         ELSE IF IsFinite(x) THEN y
         ELSE IF IsFinite(y) THEN x
         ELSE IF x = y THEN x ELSE NaN

Neg(x) == [n |-> -x.n, d |-> x.d]

\* x - y
Sub(x, y) == Add(x, Neg(y))

\* x < y; false when either is NaN
Lt(x, y) ==
    IF isNaN(x) \/ isNaN(y) THEN FALSE
    ELSE IF IsFinite(x) /\ IsFinite(y)
         THEN x.n * y.d < y.n * x.d
         ELSE IF IsFinite(x) THEN y.n > 0
         ELSE IF IsFinite(y) THEN x.n < 0
         ELSE x.n < y.n

\* x > y
Gt(x, y) == Lt(y, x)

\* x === y on numbers; NaN equals nothing
StrictEq(x, y) == ~isNaN(x) /\ ~isNaN(y) /\ x = y

\* x <= y
Le(x, y) == Lt(x, y) \/ StrictEq(x, y)

\* x >= y
Ge(x, y) == Le(y, x)

\* Math.floor(x)
MathFloor(x) == IF IsFinite(x) THEN Num(x.n \div x.d) ELSE x

\* Math.ceil(x)
MathCeil(x) == IF IsFinite(x) THEN Num(-((-x.n) \div x.d)) ELSE x

RECURSIVE Pow10(_)
Pow10(k) == IF k = 0 THEN 1 ELSE 10 * Pow10(k - 1)

(***************************************************************************)
(* Text                                                                    *)
(***************************************************************************)
DigitChars == <<"0", "1", "2", "3", "4", "5", "6", "7", "8", "9">>

IsDigit(c) == \E i \in 1..10 : DigitChars[i] = c

DigitVal(c) == (CHOOSE i \in 1..10 : DigitChars[i] = c) - 1

IsSpace(c) == c \in {" ", "\t", "\n"}

\* The text of a string literal, one character per element.
Empty == << >>

\* The first index from i on whose character satisfies no IsSpace.
RECURSIVE SkipSpace(_, _)
SkipSpace(s, i) ==
    IF i <= Len(s) /\ IsSpace(s[i]) THEN SkipSpace(s, i + 1) ELSE i

\* The first index from i on that holds no digit (Len(s) + 1 if none).
RECURSIVE DigitsEnd(_, _)
DigitsEnd(s, i) ==
    IF i <= Len(s) /\ IsDigit(s[i]) THEN DigitsEnd(s, i + 1) ELSE i

\* The value of the digits s[i..j-1], read in base ten.
RECURSIVE DigitsVal(_, _, _)
DigitsVal(s, i, j) ==
    IF j <= i THEN 0 ELSE 10 * DigitsVal(s, i, j - 1) + DigitVal(s[j - 1])

HasSign(s, i) == i <= Len(s) /\ s[i] \in {"+", "-"}

\* parseInt(s): leading white space, a sign, then the longest run of digits;
\* NaN when there is no digit.
parseInt(s) ==
    LET i0 == SkipSpace(s, 1)
        i1 == IF HasSign(s, i0) THEN i0 + 1 ELSE i0
        sg == IF HasSign(s, i0) /\ s[i0] = "-" THEN -1 ELSE 1
        i2 == DigitsEnd(s, i1)
    IN  IF i2 = i1 THEN NaN ELSE Num(sg * DigitsVal(s, i1, i2))

\* parseFloat(s): leading white space, a sign, digits, a fraction, an exponent;
\* NaN when no decimal literal starts the text.
parseFloat(s) ==
    LET i0 == SkipSpace(s, 1)
        i1 == IF HasSign(s, i0) THEN i0 + 1 ELSE i0
        sg == IF HasSign(s, i0) /\ s[i0] = "-" THEN -1 ELSE 1
        a  == DigitsEnd(s, i1)
        dot == a <= Len(s) /\ s[a] = "."
        b  == IF dot THEN DigitsEnd(s, a + 1) ELSE a
        fr == IF dot THEN b - (a + 1) ELSE 0
        mant == Rat(sg * (DigitsVal(s, i1, a) * Pow10(fr)
                            + (IF dot THEN DigitsVal(s, a + 1, b) ELSE 0)),
                    Pow10(fr))
        isE == b <= Len(s) /\ s[b] \in {"e", "E"}
        c  == IF isE /\ HasSign(s, b + 1) THEN b + 2 ELSE b + 1
        e  == IF isE THEN DigitsEnd(s, c) ELSE c
        ex == IF isE /\ e > c
              THEN (IF HasSign(s, b + 1) /\ s[b + 1] = "-" THEN -1 ELSE 1)
                   * DigitsVal(s, c, e)
              ELSE 0
    IN  IF (a - i1) + fr = 0 THEN NaN
        ELSE IF ex >= 0 THEN Mul(mant, Num(Pow10(ex)))
        ELSE Div(mant, Num(Pow10(-ex)))

(***************************************************************************)
(* Optional values: an absent field or an undefined value is << >>, a      *)
(* present one is the one-element sequence holding it.                     *)
(***************************************************************************)
undefined == << >>

Some(v) == <<v>>

(***************************************************************************)
(* The state of the component App, the two data files it imports, and the  *)
(* argument and return value of a function under test.                     *)
(***************************************************************************)
VARIABLES
    bonusPotentialsData,  \* the catalog: a sequence of BonusPotentialEntry
    tierWeights,          \* config.tierWeights: [bright, glowing]
    itemType, level, charLevel, statClass,
    line1, line2, line3, skillCooldown,
    line1Options, line23Options,
    statValues,           \* stat name -> [value, fd], both text
    prevItemType, prevLevel,
    brightResult, glowingResult,
    storage,              \* localStorage[STORAGE_KEY]
    arg, ret

inputVars == <<itemType, level, charLevel, statClass, line1, line2, line3,
               skillCooldown, statValues>>

dataVars == <<bonusPotentialsData, tierWeights>>

resultVars == <<brightResult, glowingResult>>

vars == <<bonusPotentialsData, tierWeights, itemType, level, charLevel,
          statClass, line1, line2, line3, skillCooldown, line1Options,
          line23Options, statValues, prevItemType, prevLevel, brightResult,
          glowingResult, storage, arg, ret>>

(***************************************************************************)
(* config.json, as far as the engine reads it                              *)
(***************************************************************************)
\* config.statTypes: the stats the conversion table has a row for
STAT_TYPES == {"STR", "ATT"}

\* config.statAliases: raw stat name -> canonical stat name
STAT_ALIASES == [s \in {"STR per 9 Levels", "Attack Power"} |->
                    IF s = "STR per 9 Levels" THEN "STR" ELSE "ATT"]

\* config.per9Stats
PER_9_STATS == {"STR per 9 Levels"}

(***************************************************************************)
(* Stat conversion and combination                                         *)
(***************************************************************************)
\* statValues[stat]?.[field] || '0'
statText(stat, field) ==
    IF stat \in DOMAIN statValues /\ statValues[stat][field] # Empty
    THEN statValues[stat][field]
    ELSE <<"0">>

\* potentialToFd without the test for an observed magnitude of 0
potentialToFdNoGuard(entry) ==
    LET st == entry.statType
        sv == entry.statValue
    IN  IF st = undefined \/ st[1] = "" \/ sv = undefined THEN Num(0)
        ELSE LET lookupStat == IF st[1] \in DOMAIN STAT_ALIASES
                               THEN STAT_ALIASES[st[1]] ELSE st[1]
                 userVal == parseFloat(statText(lookupStat, "value"))
                 userFd == parseFloat(statText(lookupStat, "fd"))
                 effectiveValue ==
                     IF st[1] \in PER_9_STATS
                     THEN Mul(sv[1], MathFloor(Div(parseInt(charLevel), Num(9))))
                     ELSE sv[1]
             IN  IF st[1] = "Skill Cooldown" THEN Num(0)
                 ELSE Mul(effectiveValue, Div(userFd, userVal))

\* potentialToFd looking the stat kind up without resolving its alias and
\* scaling a per-level kind by the character level itself
potentialToFdNoAlias(entry) ==
    LET st == entry.statType
        sv == entry.statValue
    IN  IF st = undefined \/ st[1] = "" \/ sv = undefined THEN Num(0)
        ELSE LET userVal == parseFloat(statText(st[1], "value"))
                 userFd == parseFloat(statText(st[1], "fd"))
                 effectiveValue ==
                     IF st[1] \in PER_9_STATS
                     THEN Mul(sv[1], parseInt(charLevel))
                     ELSE sv[1]
             IN  IF st[1] = "Skill Cooldown" THEN Num(0)
                 ELSE IF StrictEq(userVal, Num(0)) THEN Num(0)
                 ELSE Mul(effectiveValue, Div(userFd, userVal))

potentialToFd(entry) ==
    LET st == entry.statType
        sv == entry.statValue
    IN  IF st = undefined \/ st[1] = "" \/ sv = undefined THEN Num(0)
        ELSE LET lookupStat == IF st[1] \in DOMAIN STAT_ALIASES
                               THEN STAT_ALIASES[st[1]] ELSE st[1]
                 userVal == parseFloat(statText(lookupStat, "value"))
                 userFd == parseFloat(statText(lookupStat, "fd"))
                 effectiveValue ==
                     IF st[1] \in PER_9_STATS
                     THEN Mul(sv[1], MathFloor(Div(parseInt(charLevel), Num(9))))
                     ELSE sv[1]
             IN  IF st[1] = "Skill Cooldown" THEN Num(0)
                 ELSE IF StrictEq(userVal, Num(0)) THEN Num(0)
                 ELSE Mul(effectiveValue, Div(userFd, userVal))

\* the loop of computeMultiplicativeFd from element i on
RECURSIVE fdProduct(_, _, _)
fdProduct(fds, i, product) ==
    IF i > Len(fds) THEN product
    ELSE fdProduct(fds, i + 1,
                   Mul(product, Add(Num(1), Div(fds[i], Num(100)))))

computeMultiplicativeFd(fds) ==
    Mul(Sub(fdProduct(fds, 1, Num(1)), Num(1)), Num(100))

(***************************************************************************)
(* Potential names                                                         *)
(***************************************************************************)
RecoverHead == <<"%", " ", "c", "h", "a", "n", "c", "e", " ", "t", "o", " ", "r", "e", "c", "o", "v", "e", "r", " ">>

RecoverTail == <<"P", " ", "w", "h", "e", "n", " ", "a", "t", "t", "a", "c", "k", "i", "n", "g", ".">>

\* the text matched by "% chance to recover [HM]P when attacking\."
RecoverLits == {RecoverHead \o <<hm>> \o RecoverTail : hm \in {"H", "M"}}

RecoverLen == Len(RecoverHead) + 1 + Len(RecoverTail)

\* The regular expression of cleanPotentialName matches with its literal part
\* at s[k..]: a digit before it, and after it white space and a digit.
recoverMatchAt(s, k) ==
    /\ k > 1
    /\ k + RecoverLen - 1 <= Len(s)
    /\ IsDigit(s[k - 1])
    /\ SubSeq(s, k, k + RecoverLen - 1) \in RecoverLits
    /\ DigitsEnd(s, SkipSpace(s, k + RecoverLen))
         > SkipSpace(s, k + RecoverLen)

\* name.replace(/(\d+% chance to recover [HM]P when attacking\.)\s*\d+/, '$1'):
\* the leftmost match loses the white space and the digits after the literal.
cleanPotentialName(name) ==
    LET starts == 2..(Len(name) - RecoverLen + 1)
    IN  IF \E k \in starts : recoverMatchAt(name, k)
        THEN LET k == CHOOSE j \in starts :
                        /\ recoverMatchAt(name, j)
                        /\ \A h \in 2..(j - 1) : ~recoverMatchAt(name, h)
                 e == k + RecoverLen
             IN  SubSeq(name, 1, e - 1)
                   \o SubSeq(name, DigitsEnd(name, SkipSpace(name, e)),
                             Len(name))
        ELSE name

(***************************************************************************)
(* handleCalculate: catalog access and the baseline                        *)
(***************************************************************************)
\* lvl >= (p.levelRange?.min ?? 0) && lvl <= (p.levelRange?.max ?? Infinity)
inLevelRange(p, lvl) ==
    LET min == IF p.levelRange # undefined /\ p.levelRange[1].min # undefined
               THEN p.levelRange[1].min[1] ELSE Num(0)
        max == IF p.levelRange # undefined /\ p.levelRange[1].max # undefined
               THEN p.levelRange[1].max[1] ELSE Infinity
    IN  Ge(lvl, min) /\ Le(lvl, max)

eligible(p) == p.itemType = itemType /\ inLevelRange(p, parseInt(level))

allPots == SelectSeq(bonusPotentialsData, eligible)

isLegendary(p) == p.tier = "legendary"

isUnique(p) == p.tier = "unique"

legendaryPots == SelectSeq(allPots, isLegendary)

uniquePots == SelectSeq(allPots, isUnique)

\* Array.prototype.find over allPots: the first entry with the cleaned name
\* (and the tier, unless tier is undefined), or undefined.
findIn(pots, potName, tier) ==
    LET hit(i) == /\ cleanPotentialName(pots[i].potential) = potName
                  /\ (tier = undefined \/ pots[i].tier = tier[1])
    IN  IF \E i \in 1..Len(pots) : hit(i)
        THEN Some(pots[CHOOSE i \in 1..Len(pots) :
                         hit(i) /\ \A j \in 1..(i - 1) : ~hit(j)])
        ELSE undefined

findPot(potName, tier) ==
    IF findIn(allPots, potName, Some(tier)) # undefined
    THEN findIn(allPots, potName, Some(tier))
    ELSE findIn(allPots, potName, undefined)

\* isCd(p) for an entry that is there
isCdEntry(p) == p.statType = Some("Skill Cooldown")

\* isCd(p?) for a selection that may be undefined
isCd(sel) == sel # undefined /\ isCdEntry(sel[1])

sel1 == findPot(line1, "legendary")

sel2 == IF findPot(line2, "legendary") # undefined
        THEN findPot(line2, "legendary") ELSE findPot(line2, "unique")

sel3 == IF findPot(line3, "legendary") # undefined
        THEN findPot(line3, "legendary") ELSE findPot(line3, "unique")

\* the number of cooldown lines among the selections, when the flag is set
cdCountOf(sels) ==
    IF skillCooldown
    THEN Cardinality({i \in 1..Len(sels) : isCd(sels[i])})
    ELSE 0

\* p && !isCd(p) ? potentialToFd(p) : 0
lineFd(sel) ==
    IF sel # undefined /\ ~isCd(sel) THEN potentialToFd(sel[1]) ELSE Num(0)

fdsOf(sels) == [i \in 1..Len(sels) |-> lineFd(sels[i])]

targetCdCount == cdCountOf(<<sel1, sel2, sel3>>)

targetFds == fdsOf(<<sel1, sel2, sel3>>)

targetFd == computeMultiplicativeFd(targetFds)

(***************************************************************************)
(* handleCalculate: the outcome enumeration                                *)
(***************************************************************************)
\* toCand counting a cooldown line whether or not the flag is set
toCandCdAlways(p, weight) ==
    [fd   |-> IF isCdEntry(p) THEN Num(0) ELSE potentialToFd(p),
     cd   |-> IF isCdEntry(p) THEN 1 ELSE 0,
     prob |-> Mul(p.probability, weight)]

toCand(p, weight) ==
    [fd   |-> IF isCdEntry(p) THEN Num(0) ELSE potentialToFd(p),
     cd   |-> IF skillCooldown /\ isCdEntry(p) THEN 1 ELSE 0,
     prob |-> Mul(p.probability, weight)]

\* pots.map((p) => toCand(p, weight))
mapToCand(pots, weight) == [i \in 1..Len(pots) |-> toCand(pots[i], weight)]

line1Cands == mapToCand(legendaryPots, Num(1))

line2Cands(weights) ==
    mapToCand(uniquePots, weights.line2UniqueW)
      \o mapToCand(legendaryPots, weights.line2LegW)

\* line 3 built with the weights of line 2
line3CandsLine2W(weights) ==
    mapToCand(uniquePots, weights.line2UniqueW)
      \o mapToCand(legendaryPots, weights.line2LegW)

line3Cands(weights) ==
    mapToCand(uniquePots, weights.line3UniqueW)
      \o mapToCand(legendaryPots, weights.line3LegW)

\* the loop body with the bonus compared by >= and the cooldown count ignored
\* once it is not below the baseline's
comboStepGe(totalProb, c1, c2, c3, tcd, tfd) ==
    LET comboCd == c1.cd + c2.cd + c3.cd
        comboFd == computeMultiplicativeFd(<<c1.fd, c2.fd, c3.fd>>)
        won == Add(totalProb, Mul(Mul(c1.prob, c2.prob), c3.prob))
    IN  IF comboCd >= tcd /\ Ge(comboFd, tfd) THEN won ELSE totalProb

\* the loop body counting, at equal cooldown, the combinations below the
\* baseline's bonus
comboStepLt(totalProb, c1, c2, c3, tcd, tfd) ==
    LET comboCd == c1.cd + c2.cd + c3.cd
        comboFd == computeMultiplicativeFd(<<c1.fd, c2.fd, c3.fd>>)
        won == Add(totalProb, Mul(Mul(c1.prob, c2.prob), c3.prob))
    IN  IF comboCd > tcd THEN won
        ELSE IF comboCd = tcd
             THEN IF Lt(comboFd, tfd) THEN won ELSE totalProb
             ELSE totalProb

\* the body of the innermost loop: totalProb after the combination (c1, c2, c3)
comboStep(totalProb, c1, c2, c3, tcd, tfd) ==
    LET comboCd == c1.cd + c2.cd + c3.cd
        comboFd == computeMultiplicativeFd(<<c1.fd, c2.fd, c3.fd>>)
        won == Add(totalProb, Mul(Mul(c1.prob, c2.prob), c3.prob))
    IN  IF comboCd > tcd THEN won
        ELSE IF comboCd = tcd
             THEN IF Gt(comboFd, tfd) THEN won ELSE totalProb
             ELSE totalProb

\* The three nested loops.  Each loop goes on from the total it has so far;
\* a total that is NaN stays NaN whatever is added to it, so the loops hand it
\* on as it is.
RECURSIVE loopC3(_, _, _, _, _, _, _)
loopC3(totalProb, c1, c2, l3, k, tcd, tfd) ==
    IF k > Len(l3) THEN totalProb
    ELSE LET next == comboStep(totalProb, c1, c2, l3[k], tcd, tfd)
         IN  IF isNaN(next) THEN next
             ELSE loopC3(next, c1, c2, l3, k + 1, tcd, tfd)

RECURSIVE loopC2(_, _, _, _, _, _, _)
loopC2(totalProb, c1, l2, l3, j, tcd, tfd) ==
    IF j > Len(l2) THEN totalProb
    ELSE LET next == loopC3(totalProb, c1, l2[j], l3, 1, tcd, tfd)
         IN  IF isNaN(next) THEN next
             ELSE loopC2(next, c1, l2, l3, j + 1, tcd, tfd)

RECURSIVE loopC1(_, _, _, _, _, _, _)
loopC1(totalProb, l1, l2, l3, i, tcd, tfd) ==
    IF i > Len(l1) THEN totalProb
    ELSE LET next == loopC2(totalProb, l1[i], l2, l3, 1, tcd, tfd)
         IN  IF isNaN(next) THEN next
             ELSE loopC1(next, l1, l2, l3, i + 1, tcd, tfd)

\* calcProb(weights) against a baseline of cooldown count tcd and bonus tfd
calcProbAgainst(weights, tcd, tfd) ==
    loopC1(Num(0), line1Cands, line2Cands(weights), line3Cands(weights), 1,
           tcd, tfd)

calcProb(weights) == calcProbAgainst(weights, targetCdCount, targetFd)

(***************************************************************************)
(* handleCalculate: the percentile estimator                               *)
(***************************************************************************)
\* The least N >= from with y^N <= x, pow being y^from.
RECURSIVE leastPower(_, _, _, _)
leastPower(x, y, from, pow) ==
    IF Le(pow, x) THEN from ELSE leastPower(x, y, from + 1, Mul(pow, y))

\* Math.ceil(Math.log(x) / Math.log(y)) for 0 < x <= 1 and 0 < y < 1: the
\* quotient r of the two logarithms is >= 0, and an integer N is >= r exactly
\* when N * ln y <= ln x, that is when y^N <= x.
ceilLogRatio(x, y) == Num(leastPower(x, y, 0, Num(1)))

\* geomPercentile with Math.log(q) for Math.log(1 - q)
geomPercentileLogQ(p, q) ==
    IF Le(p, Num(0)) THEN Infinity
    ELSE IF Ge(p, Num(1)) THEN Num(1)
    ELSE IF isNaN(p) THEN NaN
    ELSE ceilLogRatio(q, Sub(Num(1), p))

geomPercentile(p, q) ==
    IF Le(p, Num(0)) THEN Infinity
    ELSE IF Ge(p, Num(1)) THEN Num(1)
    ELSE IF isNaN(p) THEN NaN
    ELSE ceilLogRatio(Sub(Num(1), q), Sub(Num(1), p))

\* the decimal digits of a natural number
RECURSIVE natText(_)
natText(k) ==
    IF k < 10 THEN <<DigitChars[k + 1]>>
    ELSE natText(k \div 10) \o <<DigitChars[(k % 10) + 1]>>

\* acc followed by k more digits of rem/d, the last one rounded half up
RECURSIVE longDiv(_, _, _, _)
longDiv(acc, rem, d, k) ==
    IF k = 0 THEN (IF 2 * rem >= d THEN acc + 1 ELSE acc)
    ELSE longDiv(acc * 10 + ((rem * 10) \div d), (rem * 10) % d, d, k - 1)

RECURSIVE zeros(_)
zeros(k) == IF k <= 0 THEN Empty ELSE <<"0">> \o zeros(k - 1)

\* x.toFixed(k) for k > 0: the nearest number with k decimals, ties upwards in
\* magnitude, at least one digit before the point
toFixed(x, k) ==
    IF isNaN(x) THEN <<"N", "a", "N">>
    ELSE IF ~IsFinite(x)
         THEN (IF x.n < 0 THEN <<"-">> ELSE Empty)
                \o <<"I", "n", "f", "i", "n", "i", "t", "y">>
    ELSE LET a == Abs(x.n)
             t == natText(longDiv(a \div x.d, a % x.d, x.d, k))
             u == zeros(k + 1 - Len(t)) \o t
         IN  (IF x.n < 0 THEN <<"-">> ELSE Empty)
               \o SubSeq(u, 1, Len(u) - k) \o <<".">>
               \o SubSeq(u, Len(u) - k + 1, Len(u))

\* the text of the infinity sign U+221E, a character this module cannot spell
InfinitySign == <<"U+221E">>

buildResult(prob) ==
    [probability |-> toFixed(Mul(prob, Num(100)), 6) \o <<"%">>,
     avgCubes    |-> IF Gt(prob, Num(0)) THEN toFixed(Div(Num(1), prob), 1)
                     ELSE InfinitySign,
     p25 |-> geomPercentile(prob, Rat(25, 100)),
     p50 |-> geomPercentile(prob, Rat(50, 100)),
     p75 |-> geomPercentile(prob, Rat(75, 100)),
     p90 |-> geomPercentile(prob, Rat(90, 100))]

(***************************************************************************)
(* handleCalculate                                                         *)
(***************************************************************************)
null == << >>

\* handleCalculate with setBrightResult alone
handleCalculateBrightOnly ==
    /\ IF itemType = "" \/ isNaN(parseInt(level))
       THEN UNCHANGED resultVars
       ELSE \E result \in {[t \in {"bright"} |->
                                buildResult(calcProb(tierWeights[t]))]} :
                 /\ brightResult' = Some(result.bright)
                 /\ glowingResult' = glowingResult
    /\ ret' = [fn |-> "handleCalculate"]
    /\ UNCHANGED <<dataVars, inputVars, line1Options, line23Options,
                   prevItemType, prevLevel, storage, arg>>

\* The two results are built by the same steps, one for each of the two
\* profiles of tierWeights.
handleCalculate ==
    /\ IF itemType = "" \/ isNaN(parseInt(level))
       THEN UNCHANGED resultVars
       ELSE \E result \in {[t \in {"bright", "glowing"} |->
                                buildResult(calcProb(tierWeights[t]))]} :
                 /\ brightResult' = Some(result.bright)
                 /\ glowingResult' = Some(result.glowing)
    /\ ret' = [fn |-> "handleCalculate"]
    /\ UNCHANGED <<dataVars, inputVars, line1Options, line23Options,
                   prevItemType, prevLevel, storage, arg>>

(***************************************************************************)
(* The option lists                                                        *)
(***************************************************************************)
\* the characters of the names, in the order of their UTF-16 code units
CharOrder == <<" ", "%", "+", "-", ".", "0", "1", "2", "3", "4", "5", "6", "7", "8", "9", ":", "A", "B", "C", "D", "E", "F", "G", "H", "I", "J", "K", "L", "M", "N", "O", "P", "Q", "R", "S", "T", "U", "V", "W", "X", "Y", "Z", "a", "b", "c", "d", "e", "f", "g", "h", "i", "j", "k", "l", "m", "n", "o", "p", "q", "r", "s", "t", "u", "v", "w", "x", "y", "z">>

charCode(c) == CHOOSE i \in 1..Len(CharOrder) : CharOrder[i] = c

\* a < b as Array.prototype.sort compares strings
RECURSIVE textLess(_, _)
textLess(a, b) ==
    IF a = Empty THEN b # Empty
    ELSE IF b = Empty THEN FALSE
    ELSE IF a[1] = b[1] THEN textLess(Tail(a), Tail(b))
    ELSE charCode(a[1]) < charCode(b[1])

\* [...new Set(names)].sort()
RECURSIVE sortedNames(_)
sortedNames(S) ==
    IF S = {} THEN << >>
    ELSE LET m == CHOOSE x \in S : \A y \in S \ {x} : textLess(x, y)
         IN  <<m>> \o sortedNames(S \ {m})

\* the options effect without the cleaning of the names
optionsForRaw(it, lv, tiers) ==
    IF it = "" \/ lv = Empty THEN << >>
    ELSE sortedNames({bonusPotentialsData[i].potential :
            i \in {j \in 1..Len(bonusPotentialsData) :
                     /\ bonusPotentialsData[j].itemType = it
                     /\ bonusPotentialsData[j].tier \in tiers
                     /\ inLevelRange(bonusPotentialsData[j], parseInt(lv))}})

\* the options effect for the tiers given
optionsFor(it, lv, tiers) ==
    IF it = "" \/ lv = Empty THEN << >>
    ELSE sortedNames({cleanPotentialName(bonusPotentialsData[i].potential) :
            i \in {j \in 1..Len(bonusPotentialsData) :
                     /\ bonusPotentialsData[j].itemType = it
                     /\ bonusPotentialsData[j].tier \in tiers
                     /\ inLevelRange(bonusPotentialsData[j], parseInt(lv))}})

legendaryOptions(it, lv) == optionsFor(it, lv, {"legendary"})

uniqueAndLegendaryOptions(it, lv) == optionsFor(it, lv, {"unique", "legendary"})

(***************************************************************************)
(* The user's actions.  An action is the event handler, the render that    *)
(* follows it (with the reset of the lines when the item type or the item  *)
(* level differs from the previous render's) and the effects of that       *)
(* render (the option lists, the save to localStorage).                    *)
(***************************************************************************)
\* config.itemTypes
ITEM_TYPES == {"Hat", "Ring"}

\* config.commonStats
COMMON_STATS == {"ATT"}

\* config.statClassOptions
STAT_CLASS_OPTIONS == {"STR"}

\* config.statClassStats
STAT_CLASS_STATS == [c \in {"STR"} |-> {"STR"}]

filteredStatTypes ==
    IF statClass # ""
    THEN COMMON_STATS \cup (IF statClass \in DOMAIN STAT_CLASS_STATS
                            THEN STAT_CLASS_STATS[statClass] ELSE {})
    ELSE STAT_TYPES

\* what the save effect writes
snapshot(it, lv, cl, sc, l1, l2, l3, cd, sv) ==
    [itemType |-> it, level |-> lv, charLevel |-> cl, statClass |-> sc,
     line1 |-> l1, line2 |-> l2, line3 |-> l3, skillCooldown |-> cd,
     statValues |-> sv]

\* the render without the reset of the lines
renderKeepLines(it, lv, cl, sc, l1, l2, l3, cd, sv) ==
    LET reset == it # prevItemType \/ lv # prevLevel
    IN  /\ itemType' = it /\ level' = lv /\ charLevel' = cl
        /\ statClass' = sc /\ skillCooldown' = cd /\ statValues' = sv
        /\ line1' = l1 /\ line2' = l2 /\ line3' = l3
        /\ prevItemType' = it /\ prevLevel' = lv
        /\ line1Options' = IF reset THEN legendaryOptions(it, lv)
                           ELSE line1Options
        /\ line23Options' = IF reset THEN uniqueAndLegendaryOptions(it, lv)
                            ELSE line23Options
        /\ storage' = Some(snapshot(it, lv, cl, sc, l1, l2, l3, cd, sv))
        /\ ret' = [fn |-> "none"]
        /\ UNCHANGED <<dataVars, resultVars, arg>>

\* the render after the handler set the inputs to these values; the options
\* effect runs when the item type or the level differ from the last render's
render(it, lv, cl, sc, l1, l2, l3, cd, sv) ==
    LET reset == it # prevItemType \/ lv # prevLevel
        n1 == IF reset THEN Empty ELSE l1
        n2 == IF reset THEN Empty ELSE l2
        n3 == IF reset THEN Empty ELSE l3
    IN  /\ itemType' = it /\ level' = lv /\ charLevel' = cl
        /\ statClass' = sc /\ skillCooldown' = cd /\ statValues' = sv
        /\ line1' = n1 /\ line2' = n2 /\ line3' = n3
        /\ prevItemType' = it /\ prevLevel' = lv
        /\ line1Options' = IF reset THEN legendaryOptions(it, lv)
                           ELSE line1Options
        /\ line23Options' = IF reset THEN uniqueAndLegendaryOptions(it, lv)
                            ELSE line23Options
        /\ storage' = Some(snapshot(it, lv, cl, sc, n1, n2, n3, cd, sv))
        /\ ret' = [fn |-> "none"]
        /\ UNCHANGED <<dataVars, resultVars, arg>>

setItemType(t) ==
    render(t, level, charLevel, statClass, line1, line2, line3,
           skillCooldown, statValues)

setLevel(t) ==
    render(itemType, t, charLevel, statClass, line1, line2, line3,
           skillCooldown, statValues)

setCharLevel(t) ==
    render(itemType, level, t, statClass, line1, line2, line3,
           skillCooldown, statValues)

setStatClass(c) ==
    render(itemType, level, charLevel, c, line1, line2, line3,
           skillCooldown, statValues)

setSkillCooldown(b) ==
    render(itemType, level, charLevel, statClass, line1, line2, line3,
           b, statValues)

updateStatValue(stat, field, val) ==
    /\ stat \in filteredStatTypes
    /\ render(itemType, level, charLevel, statClass, line1, line2, line3,
              skillCooldown,
              [statValues EXCEPT ![stat] = [@ EXCEPT ![field] = val]])

\* the values a select offers: the placeholder and the options
offered(options) == {Empty} \cup {options[i] : i \in 1..Len(options)}

setLine1(v) ==
    /\ line1Options # << >>
    /\ v \in offered(line1Options)
    /\ render(itemType, level, charLevel, statClass, v, line2, line3,
              skillCooldown, statValues)

setLine2(v) ==
    /\ line23Options # << >>
    /\ v \in offered(line23Options)
    /\ render(itemType, level, charLevel, statClass, line1, v, line3,
              skillCooldown, statValues)

setLine3(v) ==
    /\ line23Options # << >>
    /\ v \in offered(line23Options)
    /\ render(itemType, level, charLevel, statClass, line1, line2, v,
              skillCooldown, statValues)

(***************************************************************************)
(* The data the specifications draw from                                   *)
(***************************************************************************)
NameStr2 == <<"S", "T", "R", " ", "+", "2">>

NameStr1 == <<"S", "T", "R", " ", "+", "1">>

NameAtt1 == <<"A", "T", "T", " ", "+", "1">>

NameStr9 == <<"S", "T", "R", " ", "p", "e", "r", " ", "9", " ", "L", "e", "v", "e", "l", "s", ":", " ", "+", "1">>

NameCd == <<"S", "k", "i", "l", "l", " ", "C", "o", "o", "l", "d", "o", "w", "n", " ", "-", "1">>

\* a BonusPotentialEntry
entry(name, it, tier, prob, lr, st, sv) ==
    [potential |-> name, itemType |-> it, tier |-> tier, probability |-> prob,
     levelRange |-> lr, statType |-> st, statValue |-> sv]

levelsFrom(min) == Some([min |-> Some(Num(min)), max |-> undefined])

levelsUpTo(max) == Some([min |-> undefined, max |-> Some(Num(max))])

\* the entries the catalogs of the enumeration are made of
CalcMaster ==
    << entry(NameStr2, "Hat", "legendary", Rat(1, 2), undefined,
             Some("STR"), Some(Num(2))),
       entry(NameCd, "Hat", "legendary", Rat(1, 2), undefined,
             Some("Skill Cooldown"), Some(Num(1))),
       entry(NameStr1, "Hat", "unique", Num(1), undefined,
             Some("STR"), Some(Num(1))),
       entry(NameAtt1, "Hat", "unique", Rat(1, 2), undefined,
             Some("Attack Power"), Some(Num(1))),
       entry(NameStr2, "Hat", "epic", Num(1), undefined,
             Some("STR"), Some(Num(3))),
       entry(NameAtt1, "Hat", "legendary", Rat(1, 2), levelsFrom(150),
             Some("Attack Power"), Some(Num(4))) >>

\* the largest number of entries of a catalog
MaxEntries == 3

\* the elements of master at the indices in S, in the order of master
RECURSIVE pick(_, _, _)
pick(master, S, i) ==
    IF i > Len(master) THEN << >>
    ELSE (IF i \in S THEN <<master[i]>> ELSE << >>) \o pick(master, S, i + 1)

catalogsOf(master) ==
    {pick(master, S, 1) :
        S \in {T \in SUBSET (1..Len(master)) : Cardinality(T) <= MaxEntries}}

weightsOf(u2, l2, u3, l3) ==
    [line2UniqueW |-> u2, line2LegW |-> l2,
     line3UniqueW |-> u3, line3LegW |-> l3]

\* the tier-weight profiles the enumeration is applied with
CalcTierWeights ==
    [bright  |-> weightsOf(Rat(1, 2), Rat(1, 2), Rat(3, 4), Rat(1, 4)),
     glowing |-> weightsOf(Num(1), Num(1), Num(1), Num(0))]

row(value, fd) == [value |-> value, fd |-> fd]

\* the conversion table the enumeration is applied with
CalcStatValues ==
    [s \in STAT_TYPES |-> IF s = "STR" THEN row(<<"1">>, <<"2", "5">>)
                          ELSE row(<<"2">>, <<"2", "0", "0">>)]

(***************************************************************************)
(* The state after the first render and its effects                        *)
(***************************************************************************)
mounted ==
    /\ prevItemType = itemType /\ prevLevel = level
    /\ line1Options = legendaryOptions(itemType, level)
    /\ line23Options = uniqueAndLegendaryOptions(itemType, level)
    /\ brightResult = null /\ glowingResult = null
    /\ storage = Some(snapshot(itemType, level, charLevel, statClass,
                               line1, line2, line3, skillCooldown, statValues))

(***************************************************************************)
(* SpecCalc: calcProb applied to the states the component can be in        *)
(***************************************************************************)
applyCalcProb(profile) ==
    /\ ret' = [fn |-> "calcProb", profile |-> profile,
               value |-> calcProb(tierWeights[profile])]
    /\ UNCHANGED <<dataVars, inputVars, line1Options, line23Options,
                   prevItemType, prevLevel, resultVars, storage, arg>>

InitCalc ==
    /\ bonusPotentialsData \in catalogsOf(CalcMaster)
    /\ tierWeights = CalcTierWeights
    /\ itemType = "Hat" /\ level = <<"1", "2", "0">>
    /\ charLevel = <<"1", "8">>
    /\ statClass = ""
    /\ skillCooldown \in BOOLEAN
    /\ statValues = CalcStatValues
    /\ line1 \in offered(legendaryOptions(itemType, level))
    /\ line2 \in offered(uniqueAndLegendaryOptions(itemType, level))
    /\ line3 \in offered(uniqueAndLegendaryOptions(itemType, level))
    /\ mounted
    /\ arg = undefined /\ ret = [fn |-> "none"]

NextCalc == \E profile \in {"bright", "glowing"} : applyCalcProb(profile)

SpecCalc == InitCalc /\ [][NextCalc]_vars

(***************************************************************************)
(* The enumeration's claims                                                *)
(***************************************************************************)
\* the combined percentage bonus of three lines, as the specification
\* defines it: (prod (1 + b/100) - 1) * 100
combinedBonus(c1, c2, c3) ==
    Mul(Sub(Mul(Mul(Add(Num(1), Div(c1.fd, Num(100))),
                    Add(Num(1), Div(c2.fd, Num(100)))),
                Add(Num(1), Div(c3.fd, Num(100)))), Num(1)), Num(100))

\* the comparison rule against a baseline of cooldown count tcd and combined
\* bonus tfd: more cooldown wins, less loses, equal cooldown wins exactly with
\* a strictly greater combined bonus
Wins(c, tcd, tfd) ==
    LET comboCooldown == c[1].cd + c[2].cd + c[3].cd
    IN  \/ comboCooldown > tcd
        \/ /\ comboCooldown = tcd
           /\ Gt(combinedBonus(c[1], c[2], c[3]), tfd)

Applied == ret.fn = "calcProb"

appliedWeights == tierWeights[ret.profile]

elems(seq) == {seq[i] : i \in 1..Len(seq)}

\* the combinations the enumeration of the last application went through
Combos ==
    elems(line1Cands) \X elems(line2Cands(appliedWeights))
        \X elems(line3Cands(appliedWeights))

comboProb(c) == Mul(Mul(c[1].prob, c[2].prob), c[3].prob)

comboCdOf(c) == c[1].cd + c[2].cd + c[3].cd

\* C1: in the enumeration a combination with more cooldown lines than the
\* baseline adds its probability to the total whatever its bonus, one with
\* fewer adds nothing whatever its bonus, and one with as many adds it exactly
\* when its combined bonus is strictly greater than the baseline's.
C1_CooldownPrecedence ==
    Applied =>
      LET tcd == targetCdCount
          tfd == targetFd
          total == ret.value
      IN  \A c \in Combos :
            LET after == comboStep(total, c[1], c[2], c[3], tcd, tfd)
                bonus == combinedBonus(c[1], c[2], c[3])
                added == Add(total, comboProb(c))
            IN  /\ comboCdOf(c) > tcd => after = added
                /\ comboCdOf(c) < tcd => after = total
                /\ comboCdOf(c) = tcd =>
                     after = IF Gt(bonus, tfd) THEN added ELSE total

\* the three cases of C1 in one enumeration, each with a combination of
\* positive probability: more cooldown and less bonus, less cooldown and more
\* bonus, the same cooldown and the same bonus
C1_Witness ==
    /\ Applied
    /\ LET tcd == targetCdCount
           tfd == targetFd
       IN  /\ \E c \in Combos : /\ comboCdOf(c) > tcd
                                /\ Lt(combinedBonus(c[1], c[2], c[3]), tfd)
                                /\ Gt(comboProb(c), Num(0))
           /\ \E c \in Combos : /\ comboCdOf(c) < tcd
                                /\ Gt(combinedBonus(c[1], c[2], c[3]), tfd)
                                /\ Gt(comboProb(c), Num(0))
           /\ \E c \in Combos : /\ comboCdOf(c) = tcd
                                /\ combinedBonus(c[1], c[2], c[3]) = tfd
                                /\ Gt(comboProb(c), Num(0))

\* the catalog's entries (by index) that Catalog Access returns: the item
\* category matches and the level range, with a missing minimum read as 0 and a
\* missing maximum as unbounded, contains the item level
EligibleIdx ==
    {i \in 1..Len(bonusPotentialsData) :
       LET p == bonusPotentialsData[i]
           lv == parseInt(level)
           hasMin == p.levelRange # undefined /\ p.levelRange[1].min # undefined
           hasMax == p.levelRange # undefined /\ p.levelRange[1].max # undefined
       IN  /\ p.itemType = itemType
           /\ IsFinite(lv)
           /\ IF hasMin THEN Le(p.levelRange[1].min[1], lv) ELSE lv.n >= 0
           /\ hasMax => Le(lv, p.levelRange[1].max[1])}

TierIdx(tier) == {i \in EligibleIdx : bonusPotentialsData[i].tier = tier}

\* the candidate an entry gives a line slot under a weight
SlotCand(slot) ==
    LET p == bonusPotentialsData[slot[1]]
        cooldown == p.statType = Some("Skill Cooldown")
    IN  [fd   |-> IF cooldown THEN Num(0) ELSE potentialToFd(p),
         cd   |-> IF skillCooldown /\ cooldown THEN 1 ELSE 0,
         prob |-> Mul(p.probability, slot[2])]

\* the slots of the three lines: <<entry index, weight>>
Line1Slots == {<<i, Num(1)>> : i \in TierIdx("legendary")}

Line2Slots(w) ==
    {<<i, w.line2UniqueW>> : i \in TierIdx("unique")}
      \cup {<<i, w.line2LegW>> : i \in TierIdx("legendary")}

Line3Slots(w) ==
    {<<i, w.line3UniqueW>> : i \in TierIdx("unique")}
      \cup {<<i, w.line3LegW>> : i \in TierIdx("legendary")}

\* the sum of f over the slots S, for the three nested sums below
RECURSIVE Sum3(_, _, _, _, _)
Sum3(S, c1, c2, tcd, tfd) ==
    IF S = {} THEN Num(0)
    ELSE LET x == CHOOSE y \in S : TRUE
             c == <<c1, c2, SlotCand(x)>>
         IN  Add(IF Wins(c, tcd, tfd) THEN comboProb(c) ELSE Num(0),
                 Sum3(S \ {x}, c1, c2, tcd, tfd))

RECURSIVE Sum2(_, _, _, _, _)
Sum2(S, S3, c1, tcd, tfd) ==
    IF S = {} THEN Num(0)
    ELSE LET x == CHOOSE y \in S : TRUE
         IN  Add(Sum3(S3, c1, SlotCand(x), tcd, tfd),
                 Sum2(S \ {x}, S3, c1, tcd, tfd))

RECURSIVE Sum1(_, _, _, _, _)
Sum1(S, S2, S3, tcd, tfd) ==
    IF S = {} THEN Num(0)
    ELSE LET x == CHOOSE y \in S : TRUE
         IN  Add(Sum2(S2, S3, SlotCand(x), tcd, tfd),
                 Sum1(S \ {x}, S2, S3, tcd, tfd))

\* the probability mass of the winning combinations of the cross product
WinningMass(w) ==
    Sum1(Line1Slots, Line2Slots(w), Line3Slots(w), targetCdCount, targetFd)

\* C2: calcProb returns the sum of c1.prob * c2.prob * c3.prob over the
\* winning combinations of the full cross product of the three candidate
\* lists: line 1 the eligible legendary entries with weight 1, lines 2 and 3
\* the eligible unique entries under the line's unique weight together with
\* the eligible legendary entries under its legendary weight; no entry of
\* another tier is a candidate.
C2_SumOverCrossProduct ==
    Applied =>
      /\ ret.value = WinningMass(appliedWeights)
      /\ Len(line1Cands) = Cardinality(TierIdx("legendary"))
      /\ Len(line2Cands(appliedWeights))
           = Cardinality(TierIdx("unique")) + Cardinality(TierIdx("legendary"))
      /\ Len(line3Cands(appliedWeights))
           = Cardinality(TierIdx("unique")) + Cardinality(TierIdx("legendary"))

\* an enumeration over a catalog with an eligible legendary entry, an eligible
\* unique entry and an entry of another tier, with winners and losers
C2_Witness ==
    /\ Applied
    /\ TierIdx("legendary") # {} /\ TierIdx("unique") # {}
    /\ TierIdx("epic") # {}
    /\ Gt(ret.value, Num(0))
    /\ \E c \in Combos : /\ Gt(comboProb(c), Num(0))
                         /\ ~Wins(c, targetCdCount, targetFd)

RECURSIVE SumProbability(_)
SumProbability(S) ==
    IF S = {} THEN Num(0)
    ELSE LET i == CHOOSE j \in S : TRUE
         IN  Add(bonusPotentialsData[i].probability, SumProbability(S \ {i}))

\* the eligible entries of each tier that has any sum to probability 1
TiersSumToOne ==
    \A tier \in {"legendary", "unique"} :
       TierIdx(tier) # {} => SumProbability(TierIdx(tier)) = Num(1)

\* the weights of a profile are not negative and, line by line, the unique
\* and the legendary weight sum to at most 1
Normalised(w) ==
    /\ Ge(w.line2UniqueW, Num(0)) /\ Ge(w.line2LegW, Num(0))
    /\ Ge(w.line3UniqueW, Num(0)) /\ Ge(w.line3LegW, Num(0))
    /\ Le(Add(w.line2UniqueW, w.line2LegW), Num(1))
    /\ Le(Add(w.line3UniqueW, w.line3LegW), Num(1))

InUnitInterval(x) == Ge(x, Num(0)) /\ Le(x, Num(1))

\* C3 as claimed: over a catalog whose tiers sum to probability 1 the
\* enumerator's result lies in [0, 1], for every tier-weight profile.
C3_Original ==
    Applied /\ TiersSumToOne => InUnitInterval(ret.value)

\* C3 restricted to normalised profiles: over a catalog whose tiers sum to probability 1 the
\* enumerator's result lies in [0, 1], for every tier-weight profile whose
\* weights are not negative and, for line 2 and for line 3, sum to at most 1.
C3_UnitInterval ==
    Applied /\ TiersSumToOne /\ Normalised(appliedWeights)
      => InUnitInterval(ret.value)

\* a result strictly between 0 and 1 over such a catalog and profile, both
\* tiers being there
C3_Witness ==
    /\ Applied /\ TiersSumToOne /\ Normalised(appliedWeights)
    /\ TierIdx("legendary") # {} /\ TierIdx("unique") # {}
    /\ Gt(ret.value, Num(0)) /\ Lt(ret.value, Num(1))

\* an entry whose kind is skill-cooldown reduction
reducesCooldown(p) == p.statType = Some("Skill Cooldown")

\* the names selected for the three baseline lines, and what they resolve to
baselineNames == <<line1, line2, line3>>

baselineEntries == <<sel1, sel2, sel3>>

\* the entries the candidates of lines 2 and 3 are made from, in their order
line23Pots == uniquePots \o legendaryPots

\* the candidates made from pots have no cooldown when the flag is disabled
\* and 1 exactly for a cooldown entry when it is enabled, and no bonus for a
\* cooldown entry
cooldownAccounted(cands, pots) ==
    /\ Len(cands) = Len(pots)
    /\ \A k \in 1..Len(cands) :
          /\ cands[k].cd =
                IF skillCooldown /\ reducesCooldown(pots[k]) THEN 1 ELSE 0
          /\ reducesCooldown(pots[k]) => cands[k].fd = Num(0)

\* C13: the baseline's cooldown count is the number (0 to 3) of selected
\* lines of kind skill-cooldown reduction when the cooldown flag is enabled
\* and 0 when it is disabled; a candidate's cooldown is 0 when the flag is
\* disabled; a cooldown line has bonus 0 in the baseline and among the
\* candidates; an unselected baseline line has bonus 0 and no cooldown; and
\* with the flag disabled a combination adds its probability to the total
\* exactly when its combined bonus is strictly greater than the baseline's.
C13_CooldownAccounting ==
    Applied =>
      LET names   == baselineNames
          entries == baselineEntries
          fds     == targetFds
          tcd     == targetCdCount
          tfd     == targetFd
          total   == ret.value
      IN  /\ tcd \in 0..3
          /\ tcd = IF skillCooldown
                   THEN Cardinality({i \in 1..3 :
                                       /\ entries[i] # undefined
                                       /\ reducesCooldown(entries[i][1])})
                   ELSE 0
          /\ \A i \in 1..3 :
                /\ entries[i] # undefined /\ reducesCooldown(entries[i][1])
                      => fds[i] = Num(0)
                /\ names[i] = Empty =>
                      entries[i] = undefined /\ fds[i] = Num(0)
          /\ cooldownAccounted(line1Cands, legendaryPots)
          /\ cooldownAccounted(line2Cands(appliedWeights), line23Pots)
          /\ cooldownAccounted(line3Cands(appliedWeights), line23Pots)
          /\ ~skillCooldown =>
                \A c \in Combos :
                   comboStep(total, c[1], c[2], c[3], tcd, tfd)
                      = IF Gt(combinedBonus(c[1], c[2], c[3]), tfd)
                        THEN Add(total, comboProb(c))
                        ELSE total

\* the flag disabled, a cooldown line in the baseline and among the
\* candidates, a baseline line unselected, and winners and losers
C13_Witness ==
    /\ Applied /\ ~skillCooldown
    /\ \E i \in 1..3 : /\ baselineEntries[i] # undefined
                        /\ reducesCooldown(baselineEntries[i][1])
    /\ \E i \in 1..3 : baselineNames[i] = Empty
    /\ \E k \in 1..Len(legendaryPots) : reducesCooldown(legendaryPots[k])
    /\ Gt(ret.value, Num(0))
    /\ \E c \in Combos : /\ Gt(comboProb(c), Num(0))
                         /\ ~Wins(c, targetCdCount, targetFd)

(***************************************************************************)
(* SpecEstimate: geomPercentile and buildResult applied to probabilities   *)
(***************************************************************************)
appVars == <<dataVars, inputVars, line1Options, line23Options, prevItemType,
             prevLevel, resultVars, storage>>

\* the component with nothing loaded and nothing entered
blank ==
    /\ bonusPotentialsData = << >>
    /\ tierWeights = CalcTierWeights
    /\ itemType = "" /\ level = Empty /\ charLevel = Empty /\ statClass = ""
    /\ skillCooldown = FALSE
    /\ statValues = [s \in STAT_TYPES |-> row(Empty, Empty)]
    /\ line1 = Empty /\ line2 = Empty /\ line3 = Empty
    /\ mounted

\* the largest denominator of the probabilities tried
MaxDen == 4

\* the probabilities tried: below 0, 0, between 0 and 1, 1, above 1
Probabilities ==
    {Rat(n, d) : n \in (0 - MaxDen)..(2 * MaxDen), d \in 1..MaxDen}

Quantiles == {Rat(25, 100), Rat(50, 100), Rat(75, 100), Rat(90, 100)}

applyGeomPercentile(q) ==
    /\ ret' = [fn |-> "geomPercentile", q |-> q,
               value |-> geomPercentile(arg, q)]
    /\ UNCHANGED <<appVars, arg>>

applyBuildResult ==
    /\ ret' = [fn |-> "buildResult", value |-> buildResult(arg)]
    /\ UNCHANGED <<appVars, arg>>

InitEstimate ==
    /\ blank
    /\ arg \in Probabilities
    /\ ret = [fn |-> "none"]

NextEstimate ==
    \/ \E q \in Quantiles : applyGeomPercentile(q)
    \/ applyBuildResult

SpecEstimate == InitEstimate /\ [][NextEstimate]_vars

Built == ret.fn = "buildResult"

\* the four attempt counts of a result record
attemptCounts(r) == {r.p25, r.p50, r.p75, r.p90}

\* C4: the result record built from a success probability p <= 0 has an
\* infinite expectedAttempts and infinite p25, p50, p75, p90; the one built
\* from p >= 1, any value above 1 included, has expectedAttempts 1 and p25,
\* p50, p75, p90 all 1.
C4_DegenerateResults ==
    Built =>
      LET r == ret.value
      IN  /\ Le(arg, Num(0)) =>
                /\ r.avgCubes = InfinitySign
                /\ attemptCounts(r) = {Infinity}
          /\ Ge(arg, Num(1)) =>
                /\ StrictEq(parseFloat(r.avgCubes), Num(1))
                /\ attemptCounts(r) = {Num(1)}

\* (1 - p)^k
RECURSIVE missAll(_, _)
missAll(p, k) ==
    IF k = 0 THEN Num(1) ELSE Mul(Sub(Num(1), p), missAll(p, k - 1))

\* the probability of at least one success in k independent trials
atLeastOnce(p, k) == Sub(Num(1), missAll(p, k))

LimbBits == 14

Limb == 2 ^ LimbBits

Precision == 53

RECURSIVE bigTrim(_)
bigTrim(a) ==
    IF a # << >> /\ a[Len(a)] = 0 THEN bigTrim(SubSeq(a, 1, Len(a) - 1))
    ELSE a

RECURSIVE bigOf(_)
bigOf(k) == IF k = 0 THEN << >> ELSE <<k % Limb>> \o bigOf(k \div Limb)

bigRest(a) == IF a = << >> THEN << >> ELSE Tail(a)

bigLow(a) == IF a = << >> THEN 0 ELSE a[1]

RECURSIVE bigAddC(_, _, _)
bigAddC(a, b, carry) ==
    IF a = << >> /\ b = << >> THEN bigOf(carry)
    ELSE LET x == bigLow(a) + bigLow(b) + carry
         IN  <<x % Limb>> \o bigAddC(bigRest(a), bigRest(b), x \div Limb)

bigAdd(a, b) == bigAddC(a, b, 0)

\* a - b for a >= b
RECURSIVE bigSubB(_, _, _)
bigSubB(a, b, borrow) ==
    IF a = << >> THEN << >>
    ELSE LET x == a[1] - bigLow(b) - borrow
         IN  <<(x + Limb) % Limb>>
                \o bigSubB(Tail(a), bigRest(b), IF x < 0 THEN 1 ELSE 0)

bigSub(a, b) == bigTrim(bigSubB(a, b, 0))

RECURSIVE bigLessAt(_, _, _)
bigLessAt(a, b, i) ==
    IF i = 0 THEN FALSE
    ELSE IF a[i] # b[i] THEN a[i] < b[i]
    ELSE bigLessAt(a, b, i - 1)

bigLess(a, b) ==
    IF Len(a) # Len(b) THEN Len(a) < Len(b) ELSE bigLessAt(a, b, Len(a))

\* a * k for 0 <= k <= Limb
RECURSIVE bigMulSmallC(_, _, _)
bigMulSmallC(a, k, carry) ==
    IF a = << >> THEN bigOf(carry)
    ELSE LET x == a[1] * k + carry
         IN  <<x % Limb>> \o bigMulSmallC(Tail(a), k, x \div Limb)

bigMulSmall(a, k) == IF k = 0 THEN << >> ELSE bigMulSmallC(a, k, 0)

bigShiftLimb(a) == IF a = << >> THEN << >> ELSE <<0>> \o a

RECURSIVE bigMul(_, _)
bigMul(a, b) ==
    IF b = << >> THEN << >>
    ELSE bigAdd(bigMulSmall(a, b[1]), bigShiftLimb(bigMul(a, Tail(b))))

\* quotient and remainder of a by k, for 0 < k <= Limb, from limb i down
RECURSIVE bigDivSmallAt(_, _, _, _, _)
bigDivSmallAt(a, k, i, rem, acc) ==
    IF i = 0 THEN [q |-> bigTrim(acc), r |-> rem]
    ELSE LET cur == rem * Limb + a[i]
         IN  bigDivSmallAt(a, k, i - 1, cur % k, <<cur \div k>> \o acc)

bigDivSmall(a, k) == bigDivSmallAt(a, k, Len(a), 0, << >>)

RECURSIVE bitLen(_)
bitLen(k) == IF k = 0 THEN 0 ELSE 1 + bitLen(k \div 2)

bigBitLen(a) ==
    IF a = << >> THEN 0 ELSE LimbBits * (Len(a) - 1) + bitLen(a[Len(a)])

\* a * 2^s
bigShl(a, s) ==
    IF a = << >> THEN << >>
    ELSE [i \in 1..(s \div LimbBits) |-> 0]
            \o bigMulSmall(a, 2 ^ (s % LimbBits))

\* a \div 2^s, and whether a bit that is 1 was dropped
bigShr(a, s) ==
    LET limbs == IF s \div LimbBits < Len(a) THEN s \div LimbBits ELSE Len(a)
        d     == bigDivSmall(SubSeq(a, limbs + 1, Len(a)), 2 ^ (s % LimbBits))
    IN  [q |-> d.q,
         sticky |-> d.r # 0 \/ \E i \in 1..limbs : a[i] # 0]

Zero64 == [s |-> 1, m |-> << >>, e |-> 0]

\* the number nearest to sign * (m + x) * 2^e, ties to even, where x is 0, or
\* some value strictly between 0 and 1 when sticky (m then has more bits than
\* are kept)
round64(sign, m, e, sticky) ==
    IF m = << >> THEN Zero64
    ELSE LET len == bigBitLen(m)
         IN  IF len <= Precision
             THEN [s |-> sign, m |-> bigShl(m, Precision - len),
                   e |-> e - (Precision - len)]
             ELSE LET k    == len - Precision
                      h    == bigShr(m, k - 1)
                      d    == bigDivSmall(h.q, 2)
                      up   == d.r = 1 /\ (h.sticky \/ sticky \/ d.q[1] % 2 = 1)
                      q    == IF up THEN bigAdd(d.q, <<1>>) ELSE d.q
                  IN  IF bigBitLen(q) > Precision
                      THEN [s |-> sign, m |-> bigShr(q, 1).q, e |-> e + k + 1]
                      ELSE [s |-> sign, m |-> q, e |-> e + k]

\* the number that an integer literal k denotes
int64(k) == round64(Sign(k), bigOf(Abs(k)), 0, FALSE)

mul64(x, y) ==
    IF x.m = << >> \/ y.m = << >> THEN Zero64
    ELSE round64(x.s * y.s, bigMul(x.m, y.m), x.e + y.e, FALSE)

add64(x, y) ==
    IF x.m = << >> THEN y
    ELSE IF y.m = << >> THEN x
    ELSE LET e == IF x.e < y.e THEN x.e ELSE y.e
             a == bigShl(x.m, x.e - e)
             b == bigShl(y.m, y.e - e)
         IN  IF x.s = y.s THEN round64(x.s, bigAdd(a, b), e, FALSE)
             ELSE IF a = b THEN Zero64
             ELSE IF bigLess(a, b) THEN round64(y.s, bigSub(b, a), e, FALSE)
             ELSE round64(x.s, bigSub(a, b), e, FALSE)

neg64(x) == IF x.m = << >> THEN x ELSE [x EXCEPT !.s = 0 - x.s]

sub64(x, y) == add64(x, neg64(y))

\* x / k for an integer 0 < k <= Limb: the quotient is computed with 28 more
\* bits than x has, and a remainder is the sticky bit of the rounding
div64(x, k) ==
    IF x.m = << >> THEN Zero64
    ELSE LET d == bigDivSmall(<<0, 0>> \o x.m, k)
         IN  round64(x.s, d.q, x.e - 2 * LimbBits, d.r # 0)

\* |x - y| < 2^(-bits)
within64(x, y, bits) ==
    LET d == sub64(x, y)
    IN  d.m = << >> \/ d.e + Precision <= 0 - bits

\* the loop multiplying by fd / 100 instead of 1 + fd / 100
RECURSIVE fdProductRaw64(_, _, _)
fdProductRaw64(fds, i, product) ==
    IF i > Len(fds) THEN product
    ELSE fdProductRaw64(fds, i + 1, mul64(product, div64(fds[i], 100)))

\* the loop of computeMultiplicativeFd from element i on, in binary64
RECURSIVE fdProduct64(_, _, _)
fdProduct64(fds, i, product) ==
    IF i > Len(fds) THEN product
    ELSE fdProduct64(fds, i + 1,
                     mul64(product, add64(int64(1), div64(fds[i], 100))))

\* computeMultiplicativeFd in binary64
computeMultiplicativeFd64(fds) ==
    mul64(sub64(fdProduct64(fds, 1, int64(1)), int64(1)), int64(100))

(***************************************************************************)
(* SpecCombine: computeMultiplicativeFd applied to lists of bonuses        *)
(***************************************************************************)
\* the longest list of bonuses tried
MaxLen == 3

\* the bonuses tried
Bonuses == {int64(0), int64(5), int64(32), int64(39), int64(0 - 200)}

RECURSIVE listsUpTo(_, _)
listsUpTo(S, k) ==
    IF k = 0 THEN {<< >>}
    ELSE LET shorter == listsUpTo(S, k - 1)
         IN  shorter \cup {Append(l, x) : l \in shorter, x \in S}

applyComputeMultiplicativeFd ==
    /\ ret' = [fn |-> "computeMultiplicativeFd",
               value |-> computeMultiplicativeFd64(arg)]
    /\ UNCHANGED <<appVars, arg>>

InitCombine ==
    /\ blank
    /\ arg \in listsUpTo(Bonuses, MaxLen)
    /\ ret = [fn |-> "none"]

NextCombine == applyComputeMultiplicativeFd

SpecCombine == InitCombine /\ [][NextCombine]_vars

Combined == ret.fn = "computeMultiplicativeFd"

\* the bijections of 1..k
bijections(k) ==
    {f \in [1..k -> 1..k] : \A i, j \in 1..k : f[i] = f[j] => i = j}

permuted(l, f) == [i \in 1..Len(l) |-> l[f[i]]]

\* l with x put in front of position i
inserted(l, i, x) == SubSeq(l, 1, i - 1) \o <<x>> \o SubSeq(l, i, Len(l))

\* l without its element at position i
removed(l, i) == SubSeq(l, 1, i - 1) \o SubSeq(l, i + 1, Len(l))

\* adding a 0 to the arguments, or removing a 0 from them, leaves the result
\* as it is, to the last bit
ZeroIsNeutral ==
    /\ \A i \in 1..(Len(arg) + 1) :
          computeMultiplicativeFd64(inserted(arg, i, Zero64)) = ret.value
    /\ \A i \in 1..Len(arg) :
          arg[i] = Zero64 =>
             computeMultiplicativeFd64(removed(arg, i)) = ret.value

\* C7 as the specification states it: the combination of the empty list is
\* 0, that of a single bonus x is x, a permutation of the arguments does not
\* change it, and neither does adding a 0 to the arguments or removing a 0
\* from them, all of them as equalities of numbers.
C7_Original ==
    Combined =>
      /\ arg = << >> => ret.value = Zero64
      /\ Len(arg) = 1 => ret.value = arg[1]
      /\ \A f \in bijections(Len(arg)) :
            computeMultiplicativeFd64(permuted(arg, f)) = ret.value
      /\ ZeroIsNeutral

\* C7 up to rounding: the combination of the empty list is 0 and a 0 among
\* the arguments is neutral, both exactly; the combination of a single bonus
\* x differs from x, and the combinations of two permutations of the same
\* arguments differ from each other, by less than 2^(-30).
C7_UpToRounding ==
    Combined =>
      /\ arg = << >> => ret.value = Zero64
      /\ Len(arg) = 1 => within64(ret.value, arg[1], 30)
      /\ \A f \in bijections(Len(arg)) :
            within64(computeMultiplicativeFd64(permuted(arg, f)), ret.value,
                     30)
      /\ ZeroIsNeutral

\* three bonuses whose combination depends on their order, the results
\* nearer to each other than 2^(-30), and none of them their sum
C7_Witness ==
    /\ Combined /\ Len(arg) = 3
    /\ \E f \in bijections(3) :
          LET other == computeMultiplicativeFd64(permuted(arg, f))
          IN  other # ret.value /\ within64(other, ret.value, 30)
    /\ ~within64(ret.value, add64(add64(arg[1], arg[2]), arg[3]), 30)

(***************************************************************************)
(* SpecFd: potentialToFd applied to entries                                *)
(***************************************************************************)
FdStatTypes ==
    {undefined, Some(""), Some("STR"), Some("STR per 9 Levels"),
     Some("Attack Power"), Some("Skill Cooldown"), Some("DEX")}

FdStatValues == {undefined, Some(Num(0)), Some(Num(3)), Some(Rat(0 - 1, 2))}

FdEntries ==
    {entry(NameStr1, "Hat", "legendary", Num(1), undefined, st, sv) :
        st \in FdStatTypes, sv \in FdStatValues}

\* the rows of the conversion table tried for STR
FdRows ==
    {row(Empty, <<"5">>), row(<<"0">>, <<"5">>), row(<<"1", "0">>, <<"5">>),
     row(<<"2", ".", "5">>, Empty)}

FdCharLevels == {Empty, <<"8">>, <<"1", "8">>, <<"1", "0", "0">>}

applyPotentialToFd ==
    /\ ret' = [fn |-> "potentialToFd", value |-> potentialToFd(arg)]
    /\ UNCHANGED <<appVars, arg>>

InitFd ==
    /\ bonusPotentialsData = << >>
    /\ tierWeights = CalcTierWeights
    /\ itemType = "" /\ level = Empty /\ statClass = ""
    /\ charLevel \in FdCharLevels
    /\ skillCooldown = FALSE
    /\ \E r \in FdRows :
          statValues = [s \in STAT_TYPES |->
                          IF s = "STR" THEN r ELSE row(<<"4">>, <<"1">>)]
    /\ line1 = Empty /\ line2 = Empty /\ line3 = Empty
    /\ mounted
    /\ arg \in FdEntries
    /\ ret = [fn |-> "none"]

NextFd == applyPotentialToFd

SpecFd == InitFd /\ [][NextFd]_vars

Converted == ret.fn = "potentialToFd"

\* the canonical name of a stat kind: its alias, the kind itself without one
canonical(kind) ==
    IF kind \in DOMAIN STAT_ALIASES THEN STAT_ALIASES[kind] ELSE kind

\* what the user entered in the conversion table, an empty field read as 0
observed(stat, field) ==
    IF stat \notin DOMAIN statValues \/ statValues[stat][field] = Empty
    THEN Num(0)
    ELSE parseFloat(statValues[stat][field])

hasKind(e) == e.statType # undefined /\ e.statType # Some("")

\* C8: potentialToFd returns 0, not NaN and without a division fault, for an
\* entry without stat kind or without stat magnitude, for a skill-cooldown
\* entry, when the conversion table has no row for the canonical stat name
\* and when the observed magnitude in that row is 0, whatever the entry's
\* magnitude and the character level.
C8_ZeroBonus ==
    Converted =>
      LET e == arg
      IN  (\/ ~hasKind(e)
           \/ e.statValue = undefined
           \/ e.statType = Some("Skill Cooldown")
           \/ canonical(e.statType[1]) \notin DOMAIN statValues
           \/ observed(canonical(e.statType[1]), "value") = Num(0))
             => ret.value = Num(0)

\* the 0 cases with a magnitude and without a usable character level
C8_Witness ==
    /\ Converted /\ ret.value = Num(0)
    /\ arg.statType = Some("STR per 9 Levels") /\ arg.statValue = Some(Num(3))
    /\ charLevel = Empty
    /\ statValues["STR"].value = <<"0">> /\ statValues["STR"].fd = <<"5">>

\* the number a text of decimal digits writes
RECURSIVE decimal(_)
decimal(t) ==
    IF t = Empty THEN 0
    ELSE 10 * decimal(SubSeq(t, 1, Len(t) - 1)) + DigitVal(t[Len(t)])

isDecimal(t) == t # Empty /\ \A i \in 1..Len(t) : IsDigit(t[i])

\* C9: for an entry with a stat kind other than skill cooldown and with a
\* stat magnitude, and a non-zero observed magnitude under the canonical stat
\* name (the alias of the kind, the kind itself without one), the effective
\* bonus is rawMagnitude * (observedBonusPercent / observedMagnitude), where
\* rawMagnitude is the stat magnitude times floor(characterLevel / 9) for a
\* per-level-tier kind and the stat magnitude otherwise. The character level
\* is the number the charLevel field writes in decimal digits.
C9_EffectiveBonus ==
    Converted =>
      LET e == arg
      IN  (/\ hasKind(e) /\ e.statValue # undefined
           /\ e.statType # Some("Skill Cooldown")
           /\ canonical(e.statType[1]) \in DOMAIN statValues
           /\ observed(canonical(e.statType[1]), "value") # Num(0)
           /\ e.statType[1] \in PER_9_STATS => isDecimal(charLevel))
             => LET stat == canonical(e.statType[1])
                    observedMagnitude == observed(stat, "value")
                    observedBonusPercent == observed(stat, "fd")
                    rawMagnitude ==
                        IF e.statType[1] \in PER_9_STATS
                        THEN Mul(e.statValue[1], Num(decimal(charLevel) \div 9))
                        ELSE e.statValue[1]
                IN  /\ IsFinite(ret.value)
                    /\ Mul(ret.value, observedMagnitude)
                         = Mul(rawMagnitude, observedBonusPercent)

\* a per-level-tier entry scaled by floor(100 / 9) = 11 under an aliased name
C9_Witness ==
    /\ Converted
    /\ arg.statType = Some("STR per 9 Levels") /\ arg.statValue = Some(Num(3))
    /\ charLevel = <<"1", "0", "0">>
    /\ statValues["STR"].value = <<"1", "0">>
    /\ ret.value = Rat(33, 2)

(***************************************************************************)
(* SpecMono: calcProb over conversion tables of either sign                *)
(***************************************************************************)
MonoMaster ==
    << entry(NameStr2, "Hat", "legendary", Rat(1, 2), undefined,
             Some("STR"), Some(Num(2))),
       entry(NameAtt1, "Hat", "legendary", Rat(1, 2), undefined,
             Some("Attack Power"), Some(Num(1))),
       entry(NameStr1, "Hat", "unique", Num(1), undefined,
             Some("STR"), Some(Num(1))),
       entry(NameCd, "Hat", "legendary", Rat(1, 2), undefined,
             Some("Skill Cooldown"), Some(Num(1))) >>

\* the conversion tables: one point of STR observed as -50% or as -300%
MonoStatValues ==
    {[s \in STAT_TYPES |-> IF s = "STR" THEN row(<<"1">>, fd)
                           ELSE row(<<"2">>, <<"2", "0", "0">>)] :
        fd \in {<<"-", "5", "0">>, <<"-", "3", "0", "0">>}}

InitMono ==
    /\ bonusPotentialsData \in catalogsOf(MonoMaster)
    /\ tierWeights = CalcTierWeights
    /\ itemType = "Hat" /\ level = <<"1", "2", "0">>
    /\ charLevel = <<"1", "8">>
    /\ statClass = ""
    /\ skillCooldown = TRUE
    /\ statValues \in MonoStatValues
    /\ line1 \in offered(legendaryOptions(itemType, level))
    /\ line2 \in offered(uniqueAndLegendaryOptions(itemType, level))
    /\ line3 \in offered(uniqueAndLegendaryOptions(itemType, level))
    /\ mounted
    /\ arg = undefined /\ ret = [fn |-> "none"]

NextMono == \E profile \in {"bright", "glowing"} : applyCalcProb(profile)

SpecMono == InitMono /\ [][NextMono]_vars

\* the baseline selections with line i holding the name v
baselineWith(i, v) ==
    LET unlessFound(a, b) == IF a # undefined THEN a ELSE b
        l1 == IF i = 1 THEN v ELSE line1
        l2 == IF i = 2 THEN v ELSE line2
        l3 == IF i = 3 THEN v ELSE line3
    IN  << findPot(l1, "legendary"),
           unlessFound(findPot(l2, "legendary"), findPot(l2, "unique")),
           unlessFound(findPot(l3, "legendary"), findPot(l3, "unique")) >>

\* the names line i can hold
namesFor(i) == offered(IF i = 1 THEN line1Options ELSE line23Options)

\* replacing line i by v gives that line a larger effective bonus and leaves
\* the baseline's cooldown count as it is
RaisesLine(i, v) ==
    LET old == <<sel1, sel2, sel3>>
        new == baselineWith(i, v)
    IN  /\ Gt(lineFd(new[i]), lineFd(old[i]))
        /\ cdCountOf(new) = cdCountOf(old)

\* the result of the enumeration against the baseline with line i holding v
probWith(i, v) ==
    LET new == baselineWith(i, v)
    IN  calcProbAgainst(appliedWeights, cdCountOf(new),
                        computeMultiplicativeFd(fdsOf(new)))

\* no baseline line other than line i has an effective bonus below -100
OthersAboveMinus100(i) ==
    \A j \in (1..3) \ {i} : Ge(targetFds[j], Num(0 - 100))

\* C5 as claimed: with everything else and the baseline's cooldown count held
\* fixed, replacing a baseline line by one with a larger effective bonus never
\* increases the result of the enumeration.
C5_Original ==
    Applied =>
      \A i \in 1..3 : \A v \in namesFor(i) :
         RaisesLine(i, v) => Le(probWith(i, v), ret.value)

\* C5 as amended: with everything else and the baseline's cooldown count held
\* fixed, replacing a baseline line by one with a larger effective bonus never
\* increases the result of the enumeration, provided that no other baseline
\* line has an effective bonus below -100.
C5_Monotone ==
    Applied =>
      \A i \in 1..3 : \A v \in namesFor(i) :
         RaisesLine(i, v) /\ OthersAboveMinus100(i)
            => Le(probWith(i, v), ret.value)

\* a replacement that raises a line's bonus next to a line of negative bonus
\* and lowers the result
C5_Witness ==
    /\ Applied
    /\ \E i \in 1..3 : \E v \in namesFor(i) :
          /\ RaisesLine(i, v) /\ OthersAboveMinus100(i)
          /\ \E j \in (1..3) \ {i} : Lt(targetFds[j], Num(0))
          /\ Lt(probWith(i, v), ret.value)

(***************************************************************************)
(* Spec: the component under the user's actions.  ret tells whether the    *)
(* handler that ran last was handleCalculate.                              *)
(***************************************************************************)
AppCatalog ==
    << entry(NameStr2, "Hat", "legendary", Rat(1, 2), undefined,
             Some("STR"), Some(Num(2))),
       entry(NameCd, "Hat", "legendary", Rat(1, 2), undefined,
             Some("Skill Cooldown"), Some(Num(1))),
       entry(NameStr1, "Hat", "unique", Num(1), levelsUpTo(150),
             Some("STR"), Some(Num(1))) >>

AppTierWeights ==
    [bright  |-> weightsOf(Num(1), Num(0), Num(1), Num(0)),
     glowing |-> weightsOf(Num(1), Num(0), Num(0), Num(1))]

\* the texts typed into the item level field
AppLevels == {Empty, <<"1", "2", "0">>, <<"1", "6", "0">>}

\* the texts typed into the character level field
AppCharLevels == {Empty, <<"1", "8">>}

\* the texts typed into a field of the stat table
AppStatTexts == {<<"1">>}

\* the conversion table the component starts with
AppStatValues ==
    [s \in STAT_TYPES |-> IF s = "STR" THEN row(<<"1">>, <<"2", "5">>)
                          ELSE row(<<"1">>, <<"1">>)]

Init ==
    /\ bonusPotentialsData = AppCatalog
    /\ tierWeights = AppTierWeights
    /\ itemType = "Hat" /\ level = <<"1", "2", "0">>
    /\ charLevel = <<"1", "8">>
    /\ statClass = ""
    /\ skillCooldown = FALSE
    /\ statValues = AppStatValues
    /\ line1 \in offered(legendaryOptions(itemType, level))
    /\ line2 \in offered(uniqueAndLegendaryOptions(itemType, level))
    /\ line3 \in offered(uniqueAndLegendaryOptions(itemType, level))
    /\ mounted
    /\ arg = undefined /\ ret = [fn |-> "none"]

Next ==
    \/ \E t \in ITEM_TYPES \cup {""} : setItemType(t)
    \/ \E t \in AppLevels : setLevel(t)
    \/ \E t \in AppCharLevels : setCharLevel(t)
    \/ \E c \in STAT_CLASS_OPTIONS \cup {""} : setStatClass(c)
    \/ \E b \in BOOLEAN : setSkillCooldown(b)
    \/ \E stat \in STAT_TYPES, field \in {"value", "fd"}, val \in AppStatTexts :
          updateStatValue(stat, field, val)
    \/ \E v \in offered(line1Options) : setLine1(v)
    \/ \E v \in offered(line23Options) : setLine2(v)
    \/ \E v \in offered(line23Options) : setLine3(v)
    \/ handleCalculate

Spec == Init /\ [][Next]_vars

\* a result record of success probability 0
isZeroResult(r) ==
    /\ r # null
    /\ r[1].probability = toFixed(Num(0), 6) \o <<"%">>
    /\ r[1].avgCubes = InfinitySign
    /\ attemptCounts(r[1]) = {Infinity}

\* C10: after an invocation of the computation with the item category empty
\* or the item level not numeric, the result of every tier-weight profile is
\* one of success probability 0, with infinite expected attempts and
\* percentiles, and not one left over from earlier inputs.
C10_NoInputsZeroResult ==
    ret.fn = "handleCalculate" /\ (itemType = "" \/ isNaN(parseInt(level)))
      => isZeroResult(brightResult) /\ isZeroResult(glowingResult)

(***************************************************************************)
(* SpecScenario: Calculate on two small catalogs                           *)
(***************************************************************************)
NameStr10 == <<"S", "T", "R", " ", "+", "1", "0">>

NameStr4 == <<"S", "T", "R", " ", "+", "4">>

NameStr16 == <<"S", "T", "R", " ", "+", "1", "6">>

NameStr10u == <<"S", "T", "R", " ", "+", "1", "0", " ", "u">>

NameMeso == <<"M", "e", "s", "o", "s", " ", "+", "5">>

\* one legendary entry of probability 1 and stat magnitude 10
SingleCatalog ==
    << entry(NameStr10, "Hat", "legendary", Num(1), undefined,
             Some("STR"), Some(Num(10))) >>

\* two legendary entries of probabilities 0.3 and 0.7, a unique entry
\* without stat of probability 1, and a unique entry of probability 0
TwoCatalog ==
    << entry(NameStr4, "Hat", "legendary", Rat(3, 10), undefined,
             Some("STR"), Some(Num(4))),
       entry(NameStr16, "Hat", "legendary", Rat(7, 10), undefined,
             Some("STR"), Some(Num(16))),
       entry(NameMeso, "Hat", "unique", Num(1), undefined,
             undefined, undefined),
       entry(NameStr10u, "Hat", "unique", Num(0), undefined,
             Some("STR"), Some(Num(10))) >>

\* the profiles the single catalog is calculated with: one with legendary
\* entries on lines 2 and 3, and one with unique entries alone
SingleTierWeights ==
    [bright  |-> weightsOf(Rat(1, 2), Rat(1, 2), Num(0), Num(1)),
     glowing |-> weightsOf(Num(1), Num(0), Num(1), Num(0))]

\* the profiles the catalog of two is calculated with: one with unique
\* entries alone on lines 2 and 3, and one with nothing on line 3
TwoTierWeights ==
    [bright  |-> weightsOf(Num(1), Num(0), Num(1), Num(0)),
     glowing |-> weightsOf(Num(1), Num(0), Num(0), Num(0))]

\* the conversion table: an observed magnitude of 10 gives a bonus of 5
ScenarioStatValues ==
    [s \in STAT_TYPES |-> IF s = "STR" THEN row(<<"1", "0">>, <<"5">>)
                          ELSE row(Empty, Empty)]

InitScenario ==
    /\ \/ bonusPotentialsData = SingleCatalog /\ tierWeights = SingleTierWeights
       \/ bonusPotentialsData = TwoCatalog /\ tierWeights = TwoTierWeights
    /\ itemType = "Hat" /\ level = <<"1", "2", "0">>
    /\ charLevel = <<"1", "8">>
    /\ statClass = ""
    /\ skillCooldown = FALSE
    /\ statValues = ScenarioStatValues
    /\ line1 = Empty /\ line2 = Empty /\ line3 = Empty
    /\ mounted
    /\ arg = undefined /\ ret = [fn |-> "none"]

NextScenario ==
    \/ \E b \in BOOLEAN : setSkillCooldown(b)
    \/ \E v \in offered(line1Options) : setLine1(v)
    \/ \E v \in offered(line23Options) : setLine2(v)
    \/ \E v \in offered(line23Options) : setLine3(v)
    \/ handleCalculate

SpecScenario == InitScenario /\ [][NextScenario]_vars

Calculated == ret.fn = "handleCalculate"

\* the result the last Calculate gave for a profile
resultOf(profile) ==
    IF profile = "bright" THEN brightResult ELSE glowingResult

\* the combinations the enumeration goes through under a profile
combosUnder(profile) ==
    elems(line1Cands) \X elems(line2Cands(tierWeights[profile]))
        \X elems(line3Cands(tierWeights[profile]))

\* the single entry is the catalog, and the baseline is it on line 1 only
SingleEntryCase ==
    /\ Calculated
    /\ bonusPotentialsData = SingleCatalog
    /\ line1 = NameStr10 /\ line2 = Empty /\ line3 = Empty

\* the baseline's combined bonus as the numbers of the source give it:
\* 10 * (5 / 10) on line 1, and 0 on lines 2 and 3
singleBaseline64 ==
    computeMultiplicativeFd64(
        <<mul64(int64(10), div64(int64(5), 10)), Zero64, Zero64>>)

\* C11 as the specification states it: the entry's effective bonus is 5, the
\* baseline's combined bonus is 5, no enumerated combination strictly
\* exceeds it, successProbability is 0 and expectedAttempts is infinite.
C11_Original ==
    SingleEntryCase =>
      /\ potentialToFd(SingleCatalog[1]) = Num(5)
      /\ targetFd = Num(5)
      /\ \A profile \in {"bright", "glowing"} :
            /\ \A c \in combosUnder(profile) : ~Wins(c, targetCdCount, targetFd)
            /\ isZeroResult(resultOf(profile))

\* C11 as the code has it: the entry's effective bonus is 5 and the
\* baseline's combined bonus is 5 (up to rounding: in binary64 it is not 5,
\* but nearer to it than 2^(-30)); the one enumerated combination has the
\* entry on all three lines, its combined bonus 15.7625 strictly exceeds the
\* baseline's, and the result is built from the success probability
\* line2LegW * line3LegW of the profile, so that it is 0 with infinite
\* expected attempts for a profile where that product is 0.
C11_SingleEntry ==
    SingleEntryCase =>
      /\ potentialToFd(SingleCatalog[1]) = Num(5)
      /\ targetFd = Num(5)
      /\ within64(singleBaseline64, int64(5), 30)
      /\ \A profile \in {"bright", "glowing"} :
            LET w == tierWeights[profile]
                p == Mul(w.line2LegW, w.line3LegW)
            IN  /\ Cardinality(combosUnder(profile)) = 1
                /\ \A c \in combosUnder(profile) :
                      /\ combinedBonus(c[1], c[2], c[3]) = Rat(157625, 10000)
                      /\ Wins(c, targetCdCount, targetFd)
                      /\ comboProb(c) = p
                /\ resultOf(profile) = Some(buildResult(p))
                /\ p = Num(0) => isZeroResult(resultOf(profile))

\* the single-entry case calculated, with one profile's result a success
\* probability of 50% and 2 expected attempts and the other's 0
C11_Witness ==
    /\ SingleEntryCase
    /\ brightResult # null
    /\ brightResult[1].avgCubes = <<"2", ".", "0">>
    /\ isZeroResult(glowingResult)
    /\ singleBaseline64 # int64(5)

RECURSIVE sumProb(_, _)
sumProb(cands, i) ==
    IF i > Len(cands) THEN Num(0) ELSE Add(cands[i].prob, sumProb(cands, i + 1))

\* a line whose candidates of probability other than 0 have no bonus and no
\* cooldown, and have probability 1 together
neutralLine(cands) ==
    /\ \A i \in 1..Len(cands) :
          cands[i].prob # Num(0) => cands[i].fd = Num(0) /\ cands[i].cd = 0
    /\ sumProb(cands, 1) = Num(1)

\* exactly two line-1 candidates, of probabilities 0.3 and 0.7 and bonuses 2
\* and 8, a baseline of combined bonus 5, no cooldown, and lines 2 and 3
\* neutral under the profile
TwoCandidateCase(profile) ==
    /\ Calculated
    /\ Len(line1Cands) = 2
    /\ elems(line1Cands) = {[fd |-> Num(2), cd |-> 0, prob |-> Rat(3, 10)],
                            [fd |-> Num(8), cd |-> 0, prob |-> Rat(7, 10)]}
    /\ targetFd = Num(5) /\ targetCdCount = 0
    /\ \A c \in combosUnder(profile) : c[1].cd + c[2].cd + c[3].cd = 0
    /\ neutralLine(line2Cands(tierWeights[profile]))
    /\ neutralLine(line3Cands(tierWeights[profile]))

\* C12: with exactly two legendary line-1 candidates of probabilities 0.3 and
\* 0.7 and bonuses 2 and 8, a baseline of combined bonus 5, no cooldown and
\* lines 2 and 3 neutral, the combinations that win with a probability other
\* than 0 are those of the bonus-8 candidate, and the result is that of the
\* success probability 0.7: 70.000000%, with 1 / 0.7 = 1.4 expected attempts.
C12_TwoCandidates ==
    \A profile \in {"bright", "glowing"} :
       TwoCandidateCase(profile) =>
         /\ \A c \in combosUnder(profile) :
               comboProb(c) # Num(0) =>
                  (Wins(c, targetCdCount, targetFd) <=> c[1].fd = Num(8))
         /\ resultOf(profile) = Some(buildResult(Rat(7, 10)))
         /\ resultOf(profile)[1].probability =
               <<"7", "0", ".", "0", "0", "0", "0", "0", "0", "%">>
         /\ resultOf(profile)[1].avgCubes = <<"1", ".", "4">>

\* the two-candidate case calculated under the profile of unique entries on
\* lines 2 and 3, the baseline's bonus of 5 on line 2
C12_Witness ==
    /\ TwoCandidateCase("bright")
    /\ line1 = Empty /\ line2 = NameStr10u /\ line3 = Empty
    /\ brightResult # null

(***************************************************************************)
(* SpecSelect: the component loaded from a saved state, under the actions  *)
(* that change its inputs.  The catalog has a name in several tiers, two   *)
(* names that differ in the number after "when attacking." only, a level   *)
(* range, and an entry of a second item type.                              *)
(***************************************************************************)
NameRecover3 == <<"5", "%", " ", "c", "h", "a", "n", "c", "e", " ", "t", "o", " ", "r", "e", "c", "o", "v", "e", "r", " ", "H", "P", " ", "w", "h", "e", "n", " ", "a", "t", "t", "a", "c", "k", "i", "n", "g", ".", " ", "3">>

NameRecover7 == <<"5", "%", " ", "c", "h", "a", "n", "c", "e", " ", "t", "o", " ", "r", "e", "c", "o", "v", "e", "r", " ", "H", "P", " ", "w", "h", "e", "n", " ", "a", "t", "t", "a", "c", "k", "i", "n", "g", ".", "7">>

NameRecover == <<"5", "%", " ", "c", "h", "a", "n", "c", "e", " ", "t", "o", " ", "r", "e", "c", "o", "v", "e", "r", " ", "H", "P", " ", "w", "h", "e", "n", " ", "a", "t", "t", "a", "c", "k", "i", "n", "g", ".">>

SelectCatalog ==
    << entry(NameStr1, "Hat", "epic", Rat(1, 2), undefined,
             Some("STR"), Some(Num(3))),
       entry(NameStr1, "Hat", "unique", Rat(1, 2), undefined,
             Some("STR"), Some(Num(1))),
       entry(NameStr2, "Hat", "legendary", Rat(1, 2), undefined,
             Some("STR"), Some(Num(2))),
       entry(NameStr2, "Hat", "unique", Rat(1, 2), undefined,
             Some("STR"), Some(Num(2))),
       entry(NameRecover3, "Hat", "legendary", Rat(1, 2), levelsFrom(150),
             undefined, undefined),
       entry(NameRecover7, "Hat", "unique", Rat(1, 2), undefined,
             undefined, undefined),
       entry(NameAtt1, "Ring", "legendary", Num(1), levelsUpTo(150),
             Some("ATT"), Some(Num(1))),
       entry(NameAtt1, "Hat", "rare", Num(1), undefined,
             Some("ATT"), Some(Num(1))) >>

\* config.defaults, config.defaultLines and config.defaultStatValues
defaults ==
    snapshot("Hat", <<"1", "2", "0">>, <<"1", "8">>, "", Empty, Empty, Empty,
             FALSE, AppStatValues)

\* what localStorage holds under STORAGE_KEY when the component is
\* constructed: nothing, or what the save effect wrote in an earlier session
SavedStates ==
    {undefined,
     Some(snapshot("Hat", <<"1", "6", "0">>, <<"1", "8">>, "",
                   NameStr2, NameStr1, NameRecover, FALSE, AppStatValues)),
     Some(snapshot("Ring", <<"1", "2", "0">>, Empty, "STR",
                   NameAtt1, NameStr9, Empty, TRUE, AppStatValues))}

loadSaved(data, key, fallback) ==
    IF data # undefined /\ key \in DOMAIN data[1] THEN data[1][key]
    ELSE fallback

\* the useState initialisers, then the first render and its effects; arg
\* keeps what localStorage held
InitSelect ==
    /\ bonusPotentialsData = SelectCatalog
    /\ tierWeights = AppTierWeights
    /\ arg \in SavedStates
    /\ itemType = loadSaved(arg, "itemType", defaults.itemType)
    /\ level = loadSaved(arg, "level", defaults.level)
    /\ charLevel = loadSaved(arg, "charLevel", defaults.charLevel)
    /\ statClass = loadSaved(arg, "statClass", defaults.statClass)
    /\ line1 = loadSaved(arg, "line1", defaults.line1)
    /\ line2 = loadSaved(arg, "line2", defaults.line2)
    /\ line3 = loadSaved(arg, "line3", defaults.line3)
    /\ skillCooldown = loadSaved(arg, "skillCooldown", defaults.skillCooldown)
    /\ statValues = loadSaved(arg, "statValues", defaults.statValues)
    /\ mounted
    /\ ret = [fn |-> "mount"]

NextSelect ==
    \/ \E t \in ITEM_TYPES \cup {""} : setItemType(t)
    \/ \E t \in AppLevels : setLevel(t)
    \/ \E t \in AppCharLevels : setCharLevel(t)
    \/ \E c \in STAT_CLASS_OPTIONS \cup {""} : setStatClass(c)
    \/ \E b \in BOOLEAN : setSkillCooldown(b)
    \/ \E stat \in STAT_TYPES, field \in {"value", "fd"}, val \in AppStatTexts :
          updateStatValue(stat, field, val)
    \/ \E v \in offered(line1Options) : setLine1(v)
    \/ \E v \in offered(line23Options) : setLine2(v)
    \/ \E v \in offered(line23Options) : setLine3(v)

SpecSelect == InitSelect /\ [][NextSelect]_vars

\* the cleaned names of the eligible entries of the tiers given
cleanedNames(tiers) ==
    {cleanPotentialName(bonusPotentialsData[i].potential) :
       i \in {j \in EligibleIdx : bonusPotentialsData[j].tier \in tiers}}

\* a list without a repeated element, in ascending order of its texts
strictlySorted(list) ==
    \A i, j \in 1..Len(list) : i < j => textLess(list[i], list[j])

\* C14: for every item type and item level, the options of line 1 are
\* exactly the cleaned names of the eligible legendary entries and the options
\* of lines 2 and 3 exactly those of the eligible unique or legendary entries;
\* each list is sorted and names no entry twice; an option of line 1 is an
\* option of lines 2 and 3; both lists are empty when the item type or the
\* level is empty.
C14_OptionLists ==
    /\ elems(line1Options) = cleanedNames({"legendary"})
    /\ elems(line23Options) = cleanedNames({"unique", "legendary"})
    /\ strictlySorted(line1Options)
    /\ strictlySorted(line23Options)
    /\ Cardinality(elems(line1Options)) = Len(line1Options)
    /\ Cardinality(elems(line23Options)) = Len(line23Options)
    /\ elems(line1Options) \subseteq elems(line23Options)
    /\ (itemType = "" \/ level = Empty)
          => line1Options = << >> /\ line23Options = << >>

\* after a change of the level, two entries whose names differ in the number
\* after "when attacking." are one option, a name of two tiers is one option,
\* and the options of line 1 are fewer than those of lines 2 and 3
C14_Witness ==
    /\ ret = [fn |-> "none"]
    /\ itemType = "Hat" /\ level = <<"1", "6", "0">>
    /\ arg # undefined /\ arg[1].level # level
    /\ line1Options = <<NameRecover, NameStr2>>
    /\ line23Options = <<NameRecover, NameStr1, NameStr2>>
    /\ Cardinality({i \in EligibleIdx :
          cleanPotentialName(bonusPotentialsData[i].potential) = NameRecover
          /\ bonusPotentialsData[i].potential # NameRecover}) = 2

\* the entry a line resolves to is an eligible entry of the catalog whose
\* cleaned name is the name selected
resolvesByName(line, sel) ==
    /\ sel # undefined
    /\ cleanPotentialName(sel[1].potential) = line
    /\ \E i \in EligibleIdx : bonusPotentialsData[i] = sel[1]

\* the name of the line is one its select offers
takenFrom(line, options) == line # Empty /\ line \in elems(options)

\* C15: a line whose name is taken from its option list resolves to an
\* eligible entry with that cleaned name, of tier legendary for line 1 and of
\* tier legendary or unique for lines 2 and 3.
C15_BaselineResolution ==
    /\ takenFrom(line1, line1Options)
          => resolvesByName(line1, sel1) /\ sel1[1].tier = "legendary"
    /\ takenFrom(line2, line23Options)
          => /\ resolvesByName(line2, sel2)
             /\ sel2[1].tier \in {"legendary", "unique"}
    /\ takenFrom(line3, line23Options)
          => /\ resolvesByName(line3, sel3)
             /\ sel3[1].tier \in {"legendary", "unique"}

lineVars == <<line1, line2, line3>>

\* the inputs other than the item type, the item level and the lines
otherInputVars == <<charLevel, statClass, skillCooldown, statValues>>

\* C16: a step that changes the item type or the item level leaves line1,
\* line2 and line3 empty; a step that changes the character level, the stat
\* class, the cooldown flag or the stat values and neither the item type nor
\* the level leaves the three lines as they were; and the component loaded
\* from a saved state has the lines of the saved state.
C16_SelectionReset ==
    /\ [](ret.fn = "mount"
            => /\ line1 = loadSaved(arg, "line1", Empty)
               /\ line2 = loadSaved(arg, "line2", Empty)
               /\ line3 = loadSaved(arg, "line3", Empty))
    /\ [][/\ (itemType' # itemType \/ level' # level)
                => line1' = Empty /\ line2' = Empty /\ line3' = Empty
          /\ (itemType' = itemType /\ level' = level
                /\ otherInputVars' # otherInputVars)
                => UNCHANGED lineVars]_vars

\* the lines a saved state brought are empty after a change of the item type
C16_Witness ==
    /\ ret = [fn |-> "none"]
    /\ arg # undefined
    /\ arg[1].line1 # Empty /\ arg[1].line2 # Empty
    /\ itemType # arg[1].itemType
    /\ line1 = Empty /\ line2 = Empty /\ line3 = Empty

(***************************************************************************)
(* The frame of the results, on Spec                                       *)
(***************************************************************************)
\* C17: the two results are both absent or both present; a step changes
\* them only if it is a step of handleCalculate, which sets both when it
\* does not return early and changes no input; a step that changes an input
\* leaves both results as they were.
C17_ResultFrame ==
    /\ [](brightResult = null <=> glowingResult = null)
    /\ [][/\ resultVars' # resultVars => ret'.fn = "handleCalculate"
          /\ ret'.fn = "handleCalculate"
                => /\ UNCHANGED inputVars
                   /\ IF itemType = "" \/ isNaN(parseInt(level))
                      THEN UNCHANGED resultVars
                      ELSE brightResult' # null /\ glowingResult' # null
          /\ inputVars' # inputVars => UNCHANGED resultVars]_vars

\* results on display after the item type was emptied, from which
\* handleCalculate computes nothing
C17_Witness ==
    /\ ret = [fn |-> "none"]
    /\ brightResult # null /\ glowingResult # null
    /\ itemType = ""

=============================================================================
